---- MODULE Spec2Model ----
(***************************************************************************)
(* Signaling relay of screen-share (src/server.js): the connection         *)
(* registry `sockets`, the room registry `rooms`, the message handlers and *)
(* the disconnect cleanup.  The Node adapter (lines 1-190) and the edge    *)
(* adapter (lines 192-361) share the handlers line for line; they differ   *)
(* only in safeSend, which in both writes to the channel only when the     *)
(* channel accepts the write.                                              *)
(***************************************************************************)
EXTENDS Integers, Sequences, FiniteSets, TLC

VARIABLES sockets, rooms, readyState, fired, nextId, events, sent, last, pre,
          adminGone, running,
          mySocketId, localStream, myRoomCode, isAdmin, pendingViewers,
          peerConnections, closedPcs, offers, nextPc, creates, captures,
          hasRoom, announced, offered, clast

serverVars == <<sockets, rooms, readyState, fired, nextId, events, sent, last,
                pre, adminGone, running>>

clientVars == <<mySocketId, localStream, myRoomCode, isAdmin, pendingViewers,
                peerConnections, closedPcs, offers, nextPc, creates, captures,
                hasRoom, announced, offered, clast>>

vars == <<serverVars, clientVars>>

(* ------------------------------ bounds -------------------------------- *)
\* number of connections the server accepts in a run
MaxConns == 3
\* number of distinct first uuid groups the generator can draw
MaxCodes == 2
\* number of events (connection, message, error, close) the reactor handles
MaxEvents == 6
\* number of RTCPeerConnection objects the page creates in a run
MaxPcs == 3
\* number of create_room requests, and of getDisplayMedia calls, that the
\* page can have outstanding at once
MaxCalls == 2

(* ------------------------------ values -------------------------------- *)
Ids == 1..MaxConns
\* an absent / falsy id in a payload
NoId == 0
\* roomCode: null (falsy, never a key of rooms)
NoRoom == <<>>
\* role: null
NoRole == "null"

HexLower == <<"a", "b", "c", "d">>
HexUpper == <<"A", "B", "C", "D">>

\* String.prototype.toUpperCase on one character
UpperChar(c) ==
    IF \E i \in 1..Len(HexLower) : HexLower[i] = c
    THEN HexUpper[CHOOSE i \in 1..Len(HexLower) : HexLower[i] = c]
    ELSE c

toUpperCase(s) == [i \in 1..Len(s) |-> UpperChar(s[i])]

RECURSIVE trimStart(_)
trimStart(s) ==
    IF s # <<>> /\ Head(s) = " " THEN trimStart(Tail(s)) ELSE s

RECURSIVE trimEnd(_)
trimEnd(s) ==
    IF s # <<>> /\ s[Len(s)] = " " THEN trimEnd(SubSeq(s, 1, Len(s) - 1)) ELSE s

\* String.prototype.trim
trim(s) == trimEnd(trimStart(s))

\* the first group of a uuid, as uuid() prints it (lower-case hex)
UuidHeads == {<<HexLower[i]>> : i \in 1..MaxCodes}

\* shortRoomCode: uuid().split("-")[0].toUpperCase()
shortRoomCode(u) == toUpperCase(u)

Codes == {shortRoomCode(u) : u \in UuidHeads}

\* the roomCode fields a join_room may carry; <<>> is an absent or empty one
RawCodes ==
    {<<>>, <<" ">>} \cup Codes \cup {<<" ">> \o u \o <<" ">> : u \in UuidHeads}

\* mutant: the requested code is trimmed but not upper-cased
requestedCodeNoUpper(raw) == trim(raw)

\* (payload?.roomCode || "").trim().toUpperCase()
requestedCode(raw) == toUpperCase(trim(raw))

Roles == {NoRole, "admin", "viewer"}

\* the payloads a relay message may carry: a target id (NoId: the field is
\* absent or falsy) and whether the offer / answer / candidate is present
RelayPayloads ==
    {[peer |-> t, body |-> TRUE] : t \in Ids \cup {NoId}}
        \cup {[peer |-> 1, body |-> FALSE]}

(* ----------------------------- sequences ------------------------------ *)
InSeq(x, s) == \E i \in 1..Len(s) : s[i] = x

Range(s) == {s[i] : i \in 1..Len(s)}

\* Set.prototype.add on a set kept in insertion order
SetAdd(s, x) == IF InSeq(x, s) THEN s ELSE Append(s, x)

\* Set.prototype.delete
SetDelete(s, x) == SelectSeq(s, LAMBDA y : y # x)

(* ------------------------------ sending ------------------------------- *)
\* safeSend: the message is written only to an open channel
safeSend(rs, id) == rs[id] = "OPEN"

\* sendToSocket(socketId, type, payload): one call, with the payload's
\* fields (roomCode, and the peer id carried as viewerId/adminId/from) and
\* whether the message was written to the target's channel
sendToSocket(socks, rs, id, type, code, peer) ==
    [to |-> id, type |-> type, roomCode |-> code, peer |-> peer,
     delivered |-> id \in DOMAIN socks /\ safeSend(rs, id)]

(* ------------------------------ handlers ------------------------------ *)
\* cleanupSocket, the forEach over the participants of the closed room:
\* one room_closed per participant, in the set's order
RECURSIVE closeRoom(_, _, _)
closeRoom(socks, rs, parts) ==
    IF parts = <<>> THEN [sockets |-> socks, sent |-> <<>>]
    ELSE LET p == Head(parts)
             m == sendToSocket(socks, rs, p, "room_closed", NoRoom, NoId)
             socks1 == IF p \in DOMAIN socks
                       THEN [socks EXCEPT ![p] = [roomCode |-> NoRoom, role |-> NoRole]]
                       ELSE socks
             rest == closeRoom(socks1, rs, Tail(parts))
         IN [sockets |-> rest.sockets, sent |-> <<m>> \o rest.sent]

\* mutant: the entry is left in the registry
UnregisterKeep(socks, id) == socks

Unregister(socks, id) == [i \in DOMAIN socks \ {id} |-> socks[i]]

\* mutant: the cleanup of a room's last participant deletes the room too
cleanupSocketDropEmpty(socks, rms, rs, id) ==
    IF id \notin DOMAIN socks
    THEN [sockets |-> socks, rooms |-> rms, sent |-> <<>>]
    ELSE LET roomCode == socks[id].roomCode IN
         IF roomCode # NoRoom /\ roomCode \in DOMAIN rms
         THEN IF rms[roomCode].adminId = id
                 \/ SetDelete(rms[roomCode].participants, id) = <<>>
              THEN LET r == closeRoom(socks, rs, rms[roomCode].participants)
                   IN [sockets |-> Unregister(r.sockets, id),
                       rooms |-> [c \in DOMAIN rms \ {roomCode} |-> rms[c]],
                       sent |-> r.sent]
              ELSE [sockets |-> Unregister(socks, id),
                    rooms |-> [rms EXCEPT ![roomCode].participants =
                                  SetDelete(rms[roomCode].participants, id)],
                    sent |-> <<>>]
         ELSE [sockets |-> Unregister(socks, id), rooms |-> rms, sent |-> <<>>]

cleanupSocket(socks, rms, rs, id) ==
    IF id \notin DOMAIN socks
    THEN [sockets |-> socks, rooms |-> rms, sent |-> <<>>]
    ELSE LET roomCode == socks[id].roomCode IN
         IF roomCode # NoRoom /\ roomCode \in DOMAIN rms
         THEN IF rms[roomCode].adminId = id
              THEN LET r == closeRoom(socks, rs, rms[roomCode].participants)
                   IN [sockets |-> Unregister(r.sockets, id),
                       rooms |-> [c \in DOMAIN rms \ {roomCode} |-> rms[c]],
                       sent |-> r.sent]
              ELSE [sockets |-> Unregister(socks, id),
                    rooms |-> [rms EXCEPT ![roomCode].participants =
                                  SetDelete(rms[roomCode].participants, id)],
                    sent |-> <<>>]
         ELSE [sockets |-> Unregister(socks, id), rooms |-> rms, sent |-> <<>>]

handleCreateRoom(socks, rms, rs, id, u) ==
    LET roomCode == shortRoomCode(u)
        rms1 == [c \in DOMAIN rms \cup {roomCode} |->
                    IF c = roomCode THEN [adminId |-> id, participants |-> <<>>]
                    ELSE rms[c]]
        socks1 == [socks EXCEPT ![id] = [roomCode |-> roomCode, role |-> "admin"]]
    IN [sockets |-> socks1, rooms |-> rms1,
        sent |-> <<sendToSocket(socks1, rs, id, "room_created", roomCode, NoId)>>]

\* mutant: the entry is marked viewer of the requested code before the
\* room lookup, so a rejected join still changes the requester
handleJoinRoomEager(socks, rms, rs, id, raw) ==
    LET code == requestedCode(raw)
        socks1 == [socks EXCEPT ![id] = [roomCode |-> code, role |-> "viewer"]]
    IN
    IF code = <<>> \/ code \notin DOMAIN rms
    THEN [sockets |-> socks1, rooms |-> rms,
          sent |-> <<sendToSocket(socks1, rs, id, "room_error", NoRoom, NoId)>>]
    ELSE LET rms1 == [rms EXCEPT ![code].participants = SetAdd(rms[code].participants, id)]
         IN [sockets |-> socks1, rooms |-> rms1,
             sent |-> <<sendToSocket(socks1, rs, id, "room_joined", code, NoId),
                        sendToSocket(socks1, rs, rms1[code].adminId, "viewer_joined", NoRoom, id)>>]

handleJoinRoom(socks, rms, rs, id, raw) ==
    LET code == requestedCode(raw) IN
    IF code = <<>> \/ code \notin DOMAIN rms
    THEN [sockets |-> socks, rooms |-> rms,
          sent |-> <<sendToSocket(socks, rs, id, "room_error", NoRoom, NoId)>>]
    ELSE LET rms1 == [rms EXCEPT ![code].participants = SetAdd(rms[code].participants, id)]
             socks1 == [socks EXCEPT ![id] = [roomCode |-> code, role |-> "viewer"]]
         IN [sockets |-> socks1, rooms |-> rms1,
             sent |-> <<sendToSocket(socks1, rs, id, "room_joined", code, NoId),
                        sendToSocket(socks1, rs, rms1[code].adminId, "viewer_joined", NoRoom, id)>>]

\* mutant: the sender's role is not checked
handleOfferAnyRole(socks, rms, rs, id, viewerId, hasOffer) ==
    IF viewerId = NoId \/ ~hasOffer THEN <<>>
    ELSE IF socks[id].roomCode \notin DOMAIN rms THEN <<>>
    ELSE IF ~InSeq(viewerId, rms[socks[id].roomCode].participants) THEN <<>>
    ELSE <<sendToSocket(socks, rs, viewerId, "receive_offer", NoRoom, id)>>

\* handleOffer after the entry lookup: viewerId = NoId or hasOffer = FALSE
\* is a payload without that field
handleOffer(socks, rms, rs, id, viewerId, hasOffer) ==
    IF socks[id].role # "admin" THEN <<>>
    ELSE IF viewerId = NoId \/ ~hasOffer THEN <<>>
    ELSE IF socks[id].roomCode \notin DOMAIN rms THEN <<>>
    ELSE IF ~InSeq(viewerId, rms[socks[id].roomCode].participants) THEN <<>>
    ELSE <<sendToSocket(socks, rs, viewerId, "receive_offer", NoRoom, id)>>

\* mutant: an answer is relayed only to a target that has a room
handleAnswerAssignedOnly(socks, rs, id, adminId, hasAnswer) ==
    IF adminId = NoId \/ ~hasAnswer THEN <<>>
    ELSE IF adminId \notin DOMAIN socks \/ socks[adminId].roomCode = NoRoom THEN <<>>
    ELSE <<sendToSocket(socks, rs, adminId, "receive_answer", NoRoom, id)>>

handleAnswer(socks, rs, id, adminId, hasAnswer) ==
    IF adminId = NoId \/ ~hasAnswer THEN <<>>
    ELSE <<sendToSocket(socks, rs, adminId, "receive_answer", NoRoom, id)>>

handleIceCandidate(socks, rs, id, target, hasCandidate) ==
    IF target = NoId \/ ~hasCandidate THEN <<>>
    ELSE <<sendToSocket(socks, rs, target, "ice_candidate", NoRoom, id)>>

(* ------------------------------- state -------------------------------- *)
\* sockets, rooms: the two registries; readyState, fired: each channel's
\* state and the lifecycle events dispatched for it; nextId: the next fresh
\* socket id.  History: events counts the handled events, sent lists the
\* sendToSocket calls of the last handler, last names that event, pre is
\* the registries just before it with the channel states its sends see,
\* adminGone holds the codes whose recorded
\* admin has been cleaned up with no create_room under that code since.
\* running: the server process is alive (an exception that no handler
\* catches ends the Node process; the registries are then gone and no
\* event is handled any more).
Snapshot(rs) == [sockets |-> sockets, rooms |-> rooms, readyState |-> rs]

\* the rooms that record id as their adminId
AdminOf(rms, id) == {c \in DOMAIN rms : rms[c].adminId = id}

Event(op, id, raw, peer, body) ==
    [op |-> op, id |-> id, raw |-> raw, peer |-> peer, body |-> body]

\* one more event is handled by the live process, within the bound of the run
Handled ==
    /\ running /\ events < MaxEvents /\ events' = events + 1
    /\ UNCHANGED running
    /\ UNCHANGED clientVars

\* script.js after the page has loaded: nothing known, nothing requested
ClientInit ==
    /\ mySocketId = NoId
    /\ localStream = FALSE
    /\ myRoomCode = NoRoom
    /\ isAdmin = FALSE
    /\ pendingViewers = <<>>
    /\ peerConnections = [v \in Ids |-> 0]
    /\ closedPcs = {}
    /\ offers = {}
    /\ nextPc = 1
    /\ creates = 0
    /\ captures = 0
    /\ hasRoom = FALSE
    /\ announced = {}
    /\ offered = {}
    /\ clast = [op |-> "load", viewerId |-> NoId]

Init ==
    /\ sockets = <<>>
    /\ rooms = <<>>
    /\ readyState = [i \in Ids |-> "NEW"]
    /\ fired = [i \in Ids |-> {}]
    /\ nextId = 1
    /\ events = 0
    /\ adminGone = {}
    /\ running = TRUE
    /\ sent = <<>>
    /\ last = Event("init", NoId, <<>>, NoId, FALSE)
    /\ pre = [sockets |-> <<>>, rooms |-> <<>>, readyState |-> [i \in Ids |-> "NEW"]]
    /\ ClientInit

\* wss.on("connection"): a fresh id, an unassigned entry, socket_id sent
Connection ==
    /\ Handled
    /\ nextId <= MaxConns
    /\ LET id == nextId
           rs == [readyState EXCEPT ![id] = "OPEN"]
       IN /\ sockets' = [i \in DOMAIN sockets \cup {id} |->
                            IF i = id THEN [roomCode |-> NoRoom, role |-> NoRole]
                            ELSE sockets[i]]
          /\ readyState' = rs
          /\ sent' = <<[to |-> id, type |-> "socket_id", roomCode |-> NoRoom,
                        peer |-> id, delivered |-> safeSend(rs, id)]>>
          /\ last' = Event("connection", id, <<>>, NoId, FALSE)
    /\ nextId' = nextId + 1
    /\ pre' = Snapshot([readyState EXCEPT ![nextId] = "OPEN"])
    /\ UNCHANGED adminGone
    /\ UNCHANGED <<rooms, fired>>

\* the transport leaves the OPEN state before its close event is dispatched
Closing(id) ==
    /\ Handled
    /\ readyState[id] = "OPEN"
    /\ fired[id] = {}
    /\ readyState' = [readyState EXCEPT ![id] = "CLOSING"]
    /\ sent' = <<>>
    /\ last' = Event("closing", id, <<>>, NoId, FALSE)
    /\ pre' = Snapshot(readyState)
    /\ UNCHANGED adminGone
    /\ UNCHANGED <<sockets, rooms, fired, nextId>>

\* ws.on("error"): emitted at most once, before or after the close event;
\* a channel that was still OPEN is on its way to CLOSED afterwards
OnError(id) ==
    /\ Handled
    /\ readyState[id] \in {"OPEN", "CLOSING", "CLOSED"}
    /\ "error" \notin fired[id]
    /\ \E r \in {cleanupSocket(sockets, rooms, readyState, id)} :
          /\ sockets' = r.sockets
          /\ rooms' = r.rooms
          /\ sent' = r.sent
    /\ readyState' = [readyState EXCEPT ![id] = IF @ = "OPEN" THEN "CLOSING" ELSE @]
    /\ fired' = [fired EXCEPT ![id] = @ \cup {"error"}]
    /\ last' = Event("error", id, <<>>, NoId, FALSE)
    /\ pre' = Snapshot(readyState)
    /\ adminGone' = adminGone \cup AdminOf(rooms, id)
    /\ UNCHANGED nextId

\* ws.on("close"): the channel is CLOSED when the event is dispatched
OnClose(id) ==
    /\ Handled
    /\ readyState[id] \in {"OPEN", "CLOSING"}
    /\ readyState' = [readyState EXCEPT ![id] = "CLOSED"]
    /\ \E r \in {cleanupSocket(sockets, rooms, readyState', id)} :
          /\ sockets' = r.sockets
          /\ rooms' = r.rooms
          /\ sent' = r.sent
    /\ fired' = [fired EXCEPT ![id] = @ \cup {"close"}]
    /\ last' = Event("close", id, <<>>, NoId, FALSE)
    /\ pre' = Snapshot(readyState')
    /\ adminGone' = adminGone \cup AdminOf(rooms, id)
    /\ UNCHANGED nextId

\* Message events.  A message is dispatched only for a connection whose
\* entry exists (the handlers' `if (!entry) return`): the first close or
\* error removes the entry and the channel emits no message after it.  A
\* channel that is CLOSING can still hand over messages it had buffered.

\* handleMessage, case "create_room"
CreateRoom(id) ==
    /\ Handled
    /\ id \in DOMAIN sockets
    /\ \E u \in UuidHeads :
          \E r \in {handleCreateRoom(sockets, rooms, readyState, id, u)} :
             /\ sockets' = r.sockets
             /\ rooms' = r.rooms
             /\ sent' = r.sent
             /\ last' = Event("create_room", id, shortRoomCode(u), NoId, FALSE)
             /\ adminGone' = adminGone \ {shortRoomCode(u)}
    /\ pre' = Snapshot(readyState)
    /\ UNCHANGED <<readyState, fired, nextId>>

\* handleMessage, case "join_room"
JoinRoom(id) ==
    /\ Handled
    /\ id \in DOMAIN sockets
    /\ \E raw \in RawCodes :
          \E r \in {handleJoinRoom(sockets, rooms, readyState, id, raw)} :
             /\ sockets' = r.sockets
             /\ rooms' = r.rooms
             /\ sent' = r.sent
             /\ last' = Event("join_room", id, raw, NoId, FALSE)
    /\ pre' = Snapshot(readyState)
    /\ UNCHANGED adminGone
    /\ UNCHANGED <<readyState, fired, nextId>>

\* handleMessage, case "send_offer"
SendOffer(id) ==
    /\ Handled
    /\ id \in DOMAIN sockets
    /\ \E p \in RelayPayloads :
          /\ sent' = handleOffer(sockets, rooms, readyState, id, p.peer, p.body)
          /\ last' = Event("send_offer", id, <<>>, p.peer, p.body)
    /\ pre' = Snapshot(readyState)
    /\ UNCHANGED adminGone
    /\ UNCHANGED <<sockets, rooms, readyState, fired, nextId>>

\* handleMessage, case "send_answer"
SendAnswer(id) ==
    /\ Handled
    /\ id \in DOMAIN sockets
    /\ \E p \in RelayPayloads :
          /\ sent' = handleAnswer(sockets, readyState, id, p.peer, p.body)
          /\ last' = Event("send_answer", id, <<>>, p.peer, p.body)
    /\ pre' = Snapshot(readyState)
    /\ UNCHANGED adminGone
    /\ UNCHANGED <<sockets, rooms, readyState, fired, nextId>>

\* handleMessage, case "ice_candidate"
IceCandidate(id) ==
    /\ Handled
    /\ id \in DOMAIN sockets
    /\ \E p \in RelayPayloads :
          /\ sent' = handleIceCandidate(sockets, readyState, id, p.peer, p.body)
          /\ last' = Event("ice_candidate", id, <<>>, p.peer, p.body)
    /\ pre' = Snapshot(readyState)
    /\ UNCHANGED adminGone
    /\ UNCHANGED <<sockets, rooms, readyState, fired, nextId>>

\* Text frames that reach none of the five cases: text that is not JSON, the
\* JSON values that are not records, a record without a type and a record
\* whose type names no case.
Texts == {"{", "7", "null", "{}", "{\"type\":\"ping\"}"}

\* JSON.parse: throws a SyntaxError on text that is not JSON; `null` is JSON
JSONparse(data) ==
    IF data = "{" THEN [threw |-> TRUE, isNull |-> FALSE]
    ELSE [threw |-> FALSE, isNull |-> (data = "null")]

\* handleMessage on such a frame: how the call ends.  The SyntaxError is
\* caught and the handler returns; `const { type, ...rest } = parsed` is
\* outside the try block and throws a TypeError when parsed is null; any
\* other value has no matching case and falls to the default branch.
handleMessage(data) ==
    IF JSONparse(data).threw THEN "return"
    ELSE IF JSONparse(data).isNull THEN "TypeError"
    ELSE "break"

\* What an exception that leaves a listener does to the process: under Node
\* nothing catches it and the process ends; the edge runtime reports it and
\* keeps serving.
AfterListener(outcome) ==
    IF outcome = "TypeError" THEN {TRUE, FALSE} ELSE {TRUE}

\* ws.on("message") with a frame that reaches no case
Message(id) ==
    /\ events < MaxEvents /\ events' = events + 1
    /\ running
    /\ id \in DOMAIN sockets
    /\ \E data \in Texts :
          /\ running' \in AfterListener(handleMessage(data))
          /\ last' = Event(handleMessage(data), id, <<>>, NoId, FALSE)
    /\ sent' = <<>>
    /\ pre' = Snapshot(readyState)
    /\ UNCHANGED <<sockets, rooms, readyState, fired, nextId, adminGone>>
    /\ UNCHANGED clientVars

Next ==
    \/ Connection
    \/ \E id \in Ids : Closing(id)
    \/ \E id \in Ids : OnError(id)
    \/ \E id \in Ids : OnClose(id)
    \/ \E id \in Ids : CreateRoom(id)
    \/ \E id \in Ids : JoinRoom(id)
    \/ \E id \in Ids : SendOffer(id)
    \/ \E id \in Ids : SendAnswer(id)
    \/ \E id \in Ids : IceCandidate(id)
    \/ \E id \in Ids : Message(id)

Spec == Init /\ [][Next]_vars

TypeOK ==
    /\ DOMAIN sockets \subseteq Ids
    /\ \A i \in DOMAIN sockets :
          sockets[i].role \in Roles /\ sockets[i].roomCode \in Codes \cup {NoRoom}
    /\ DOMAIN rooms \subseteq Codes
    /\ \A c \in DOMAIN rooms :
          rooms[c].adminId \in Ids /\ Range(rooms[c].participants) \subseteq Ids
    /\ nextId \in 1..(MaxConns + 1)
    /\ events \in 0..MaxEvents
    /\ adminGone \subseteq Codes
    /\ running \in BOOLEAN
(* ------------------------- the page (script.js) ------------------------ *)
\* mySocketId, localStream, myRoomCode (roomCode), isAdmin, pendingViewers,
\* peerConnections: the script's variables.  RTCPeerConnection objects are
\* numbered from 1 (nextPc); closedPcs are those closed by pc.close();
\* offers holds, per call of createAdminPeerConnection that is suspended at
\* an await, its viewer and its pc.  creates and captures count the
\* create_room requests without a room_created yet and the getDisplayMedia
\* calls not yet settled; hasRoom: a room_created has arrived.  History:
\* announced are the viewers announced to the page as admin and still owed
\* an offer, offered those a send_offer was emitted for since, clast names
\* the last step.
Pcs == [pendingViewers |-> pendingViewers, peerConnections |-> peerConnections,
        closedPcs |-> closedPcs, offers |-> offers, nextPc |-> nextPc]

\* createAdminPeerConnection up to its first await
createAdminPeerConnection(c, stream, sid, viewerId) ==
    IF ~stream \/ sid = NoId
    THEN [c EXCEPT !.pendingViewers = SetAdd(@, viewerId)]
    ELSE [c EXCEPT !.closedPcs = IF c.peerConnections[viewerId] # 0
                                 THEN @ \cup {c.peerConnections[viewerId]}
                                 ELSE @,
                   !.peerConnections[viewerId] = c.nextPc,
                   !.offers = @ \cup {[viewerId |-> viewerId, pc |-> c.nextPc]},
                   !.nextPc = @ + 1]

\* pendingViewers.forEach((viewerId) => createAdminPeerConnection(viewerId))
RECURSIVE forEachPending(_, _, _, _)
forEachPending(c, stream, sid, todo) ==
    IF todo = <<>> THEN c
    ELSE forEachPending(createAdminPeerConnection(c, stream, sid, Head(todo)),
                        stream, sid, Tail(todo))

SetPcs(c) ==
    /\ pendingViewers' = c.pendingViewers
    /\ peerConnections' = c.peerConnections
    /\ closedPcs' = c.closedPcs
    /\ offers' = c.offers
    /\ nextPc' = c.nextPc

\* socket.on("socket_id"): the first message of the connection
OnSocketId ==
    /\ mySocketId = NoId
    /\ \E id \in Ids : mySocketId' = id
    /\ clast' = [op |-> "socket_id", viewerId |-> NoId]
    /\ UNCHANGED <<localStream, myRoomCode, isAdmin, pendingViewers,
                   peerConnections, closedPcs, offers, nextPc, creates,
                   captures, hasRoom, announced, offered>>
    /\ UNCHANGED serverVars

\* createRoom(): a click on the create button
createRoom ==
    /\ myRoomCode = NoRoom
    /\ creates < MaxCalls
    /\ isAdmin' = TRUE
    /\ creates' = creates + 1
    /\ clast' = [op |-> "createRoom", viewerId |-> NoId]
    /\ UNCHANGED <<mySocketId, localStream, myRoomCode, pendingViewers,
                   peerConnections, closedPcs, offers, nextPc, captures,
                   hasRoom, announced, offered>>
    /\ UNCHANGED serverVars

\* socket.on("room_created"): the answer to one create_room
OnRoomCreated ==
    /\ mySocketId # NoId
    /\ creates > 0
    /\ creates' = creates - 1
    /\ hasRoom' = TRUE
    /\ \E createdCode \in Codes :
          myRoomCode' = IF isAdmin THEN createdCode ELSE myRoomCode
    /\ clast' = [op |-> "room_created", viewerId |-> NoId]
    /\ UNCHANGED <<mySocketId, localStream, isAdmin, pendingViewers,
                   peerConnections, closedPcs, offers, nextPc, captures,
                   announced, offered>>
    /\ UNCHANGED serverVars

\* joinRoom() with a code typed into the input: the page turns viewer
joinRoom ==
    /\ \E code \in Codes : myRoomCode' = code
    /\ isAdmin' = FALSE
    /\ clast' = [op |-> "joinRoom", viewerId |-> NoId]
    /\ UNCHANGED <<mySocketId, localStream, pendingViewers, peerConnections,
                   closedPcs, offers, nextPc, creates, captures, hasRoom,
                   announced, offered>>
    /\ UNCHANGED serverVars

\* socket.on("viewer_joined"): the server announces a participant of a room
\* that records this connection as adminId; viewerId is the joiner's id
OnViewerJoined ==
    /\ hasRoom
    /\ \E viewerId \in Ids \ {mySocketId} :
          /\ localStream /\ isAdmin => nextPc <= MaxPcs
          /\ clast' = [op |-> "viewer_joined", viewerId |-> viewerId]
          /\ IF ~isAdmin
             THEN UNCHANGED <<pendingViewers, peerConnections, closedPcs,
                              offers, nextPc, announced, offered>>
             ELSE /\ announced' = announced \cup {viewerId}
                  /\ offered' = offered \ {viewerId}
                  /\ IF localStream
                     THEN SetPcs(createAdminPeerConnection(Pcs, localStream,
                                                           mySocketId, viewerId))
                     ELSE SetPcs([Pcs EXCEPT !.pendingViewers = SetAdd(@, viewerId)])
    /\ UNCHANGED <<mySocketId, localStream, myRoomCode, isAdmin, creates,
                   captures, hasRoom>>
    /\ UNCHANGED serverVars

\* startScreenShare() up to `await getDisplayMedia`
startScreenShare ==
    /\ isAdmin
    /\ myRoomCode # NoRoom
    /\ ~localStream
    /\ captures < MaxCalls
    /\ captures' = captures + 1
    /\ clast' = [op |-> "startScreenShare", viewerId |-> NoId]
    /\ UNCHANGED <<mySocketId, localStream, myRoomCode, isAdmin,
                   pendingViewers, peerConnections, closedPcs, offers, nextPc,
                   creates, hasRoom, announced, offered>>
    /\ UNCHANGED serverVars

\* startScreenShare() after the await: the stream is stored and the pending
\* viewers are served, or the promise was rejected and the error is logged
DisplayMediaSettles ==
    /\ captures > 0
    /\ captures' = captures - 1
    /\ \E granted \in BOOLEAN :
          IF granted
          THEN /\ nextPc + Len(pendingViewers) <= MaxPcs + 1
               /\ localStream' = TRUE
               /\ SetPcs(forEachPending(Pcs, TRUE, mySocketId, pendingViewers))
               /\ clast' = [op |-> "stream", viewerId |-> NoId]
          ELSE /\ UNCHANGED <<localStream, pendingViewers, peerConnections,
                              closedPcs, offers, nextPc>>
               /\ clast' = [op |-> "no_stream", viewerId |-> NoId]
    /\ UNCHANGED <<mySocketId, myRoomCode, isAdmin, creates, hasRoom,
                   announced, offered>>
    /\ UNCHANGED serverVars

\* how `await pc.createOffer(); await pc.setLocalDescription(offer)` can end
\* for a pc: both throw on a closed pc, and either may be rejected on an
\* open one
OfferOutcomes(closed, pc) ==
    IF pc \in closed THEN {"rejected"} ELSE {"resolved", "rejected"}

\* createAdminPeerConnection after its awaits: send_offer is emitted when
\* the offer was made and the socket id is known; a rejection is caught and
\* logged; the viewer leaves pendingViewers on both paths, and stays only
\* on the early return for an unknown socket id
OfferSettles ==
    \E t \in offers : \E outcome \in OfferOutcomes(closedPcs, t.pc) :
        /\ offers' = offers \ {t}
        /\ offered' = IF outcome = "resolved" /\ mySocketId # NoId
                      THEN offered \cup {t.viewerId}
                      ELSE offered
        /\ pendingViewers' = IF outcome = "resolved" /\ mySocketId = NoId
                             THEN pendingViewers
                             ELSE SetDelete(pendingViewers, t.viewerId)
        /\ clast' = [op |-> outcome, viewerId |-> t.viewerId]
        /\ UNCHANGED <<mySocketId, localStream, myRoomCode, isAdmin,
                       peerConnections, closedPcs, nextPc, creates, captures,
                       hasRoom, announced>>
        /\ UNCHANGED serverVars

ClientNext ==
    \/ OnSocketId
    \/ createRoom
    \/ OnRoomCreated
    \/ joinRoom
    \/ OnViewerJoined
    \/ startScreenShare
    \/ DisplayMediaSettles
    \/ OfferSettles

SpecClient == Init /\ [][ClientNext]_vars

ClientTypeOK ==
    /\ mySocketId \in Ids \cup {NoId}
    /\ localStream \in BOOLEAN
    /\ isAdmin \in BOOLEAN
    /\ myRoomCode \in Codes \cup {NoRoom}
    /\ Range(pendingViewers) \subseteq Ids
    /\ \A v \in Ids : peerConnections[v] \in 0..MaxPcs
    /\ closedPcs \subseteq 1..MaxPcs
    /\ \A t \in offers : t.viewerId \in Ids /\ t.pc \in 1..MaxPcs
    /\ nextPc \in 1..(MaxPcs + 1)
    /\ creates \in 0..MaxCalls
    /\ captures \in 0..MaxCalls
    /\ announced \subseteq Ids
    /\ offered \subseteq announced

(* --------------------------- claim vocabulary -------------------------- *)
Parts(rms, c) == Range(rms[c].participants)

Cleanup == last.op \in {"close", "error"}

\* the cleanup took effect: the connection was still registered
CleanupOf(role) ==
    /\ Cleanup
    /\ last.id \in DOMAIN pre.sockets
    /\ pre.sockets[last.id].role = role

Unassigned(socks, i) == socks[i].role = NoRole /\ socks[i].roomCode = NoRoom

RegistriesUnchanged == sockets = pre.sockets /\ rooms = pre.rooms

\* the calls of `sent` that wrote type to the channel of connection i
Delivered(type, i) ==
    {k \in 1..Len(sent) : sent[k].type = type /\ sent[k].to = i /\ sent[k].delivered}

(* -------------------------------- C1 ----------------------------------- *)
\* C1: in every reachable state each registered connection's role and room
\* agree with the room registry: an admin's room exists and records it as
\* adminId, a viewer's room exists and has it as a participant, and the role
\* is unassigned exactly when the room is none.
C1_RoleRoomAgree ==
    \A i \in DOMAIN sockets :
        /\ sockets[i].role = "admin" =>
              /\ sockets[i].roomCode \in DOMAIN rooms
              /\ rooms[sockets[i].roomCode].adminId = i
        /\ sockets[i].role = "viewer" =>
              /\ sockets[i].roomCode \in DOMAIN rooms
              /\ i \in Parts(rooms, sockets[i].roomCode)
        /\ sockets[i].role = NoRole <=> sockets[i].roomCode = NoRoom

(* -------------------------------- C2 ----------------------------------- *)
\* C2: in every reachable state every id in a room's participant set is a
\* registered connection whose role is viewer and whose room is that room.
C2_ParticipantsAreViewers ==
    \A c \in DOMAIN rooms : \A p \in Parts(rooms, c) :
        /\ p \in DOMAIN sockets
        /\ sockets[p].role = "viewer"
        /\ sockets[p].roomCode = c

(* -------------------------------- C3 ----------------------------------- *)
\* C3: after the cleanup of a connection whose role is admin and whose room
\* is R, R is not in the registry and every connection that was in R's
\* participant set and is still registered is unassigned with no room.
C3_AdminCleanupClosesRoom ==
    CleanupOf("admin") =>
        LET R == pre.sockets[last.id].roomCode IN
        /\ R \notin DOMAIN rooms
        /\ R \in DOMAIN pre.rooms =>
              \A p \in Parts(pre.rooms, R) \cap DOMAIN sockets : Unassigned(sockets, p)

(* -------------------------------- C4 ----------------------------------- *)
\* C4: after the cleanup of a connection whose role is viewer, its room
\* still exists with the same adminId, the admin's role and room are
\* unchanged, every other participant keeps its role, room and membership,
\* and only the disconnecting connection is removed.
C4_ViewerCleanupFrame ==
    CleanupOf("viewer") =>
        LET R == pre.sockets[last.id].roomCode IN
        /\ R \in DOMAIN pre.rooms
        /\ R \in DOMAIN rooms
        /\ rooms[R].adminId = pre.rooms[R].adminId
        /\ Parts(rooms, R) = Parts(pre.rooms, R) \ {last.id}
        /\ DOMAIN sockets = DOMAIN pre.sockets \ {last.id}
        /\ \A i \in DOMAIN sockets : sockets[i] = pre.sockets[i]

(* -------------------------------- C5 ----------------------------------- *)
\* the send_offer just handled came from a non-admin, or named a viewerId
\* that is not a participant of the sender's room (or that room is missing)
OfferUnauthorized ==
    /\ last.op = "send_offer"
    /\ LET e == pre.sockets[last.id] IN
          \/ e.role # "admin"
          \/ e.roomCode \notin DOMAIN pre.rooms
          \/ last.peer \notin Parts(pre.rooms, e.roomCode)

\* C5: a send_offer from a non-admin, or for a viewerId outside the sender's
\* room, makes no sendToSocket call and changes no registry.
C5_UnauthorizedOfferDropped ==
    OfferUnauthorized => sent = <<>> /\ RegistriesUnchanged

\* an admin's offer for a registered connection outside its room was dropped
C5_Witness ==
    /\ OfferUnauthorized
    /\ pre.sockets[last.id].role = "admin"
    /\ last.body
    /\ last.peer \in DOMAIN sockets
    /\ sent = <<>>
(* -------------------------------- C6 ----------------------------------- *)
RelayType(op) == IF op = "send_answer" THEN "receive_answer" ELSE "ice_candidate"

\* the one call a relayed answer / candidate makes: to the literal target,
\* naming the sender, written iff the target is registered with an open channel
RelayedToTarget ==
    /\ Len(sent) = 1
    /\ sent[1].to = last.peer
    /\ sent[1].type = RelayType(last.op)
    /\ sent[1].peer = last.id
    /\ sent[1].delivered <=>
          (last.peer \in DOMAIN sockets /\ readyState[last.peer] = "OPEN")

\* C6 as stated: every send_answer{adminId: T} and ice_candidate{target: T}
\* is relayed to exactly T, whatever the roles and rooms of sender and target.
C6_EveryRelayAttempted ==
    (last.op \in {"send_answer", "ice_candidate"} /\ last.peer # NoId)
        => RelayedToTarget

\* C6 amended: every send_answer{adminId: T} that carries an answer and every
\* ice_candidate{target: T} that carries a candidate is relayed to exactly T,
\* naming the sender, whatever the roles and rooms of sender and target.
C6_CompleteRelayAttempted ==
    (last.op \in {"send_answer", "ice_candidate"} /\ last.peer # NoId /\ last.body)
        => RelayedToTarget

\* an answer from an unassigned sender reached the admin of a room
C6_Witness ==
    /\ last.op = "send_answer"
    /\ last.body
    /\ last.peer \in DOMAIN sockets
    /\ last.peer # last.id
    /\ sockets[last.id].role = NoRole
    /\ sockets[last.peer].role = "admin"
    /\ Len(sent) = 1
    /\ sent[1].delivered

(* ----------------------------- C7 and C8 ------------------------------- *)
\* raw is room code R as a client may type it: R itself, or R in lower case
\* with surrounding blanks
Matches(raw, R) ==
    \/ raw = R
    \/ \E u \in UuidHeads : shortRoomCode(u) = R /\ raw = <<" ">> \o u \o <<" ">>

JoinFor(R) == last.op = "join_room" /\ Matches(last.raw, R)

\* the join_room just handled named no room of the registry
JoinUnknown ==
    /\ last.op = "join_room"
    /\ ~ \E R \in DOMAIN pre.rooms : Matches(last.raw, R)

OnlyRoomError ==
    /\ Len(sent) = 1
    /\ sent[1].type = "room_error"
    /\ sent[1].to = last.id

\* C7: a join_room whose normalized code is empty or names no existing room
\* makes exactly one call, room_error to the requester, and changes no
\* connection's role or room and no room's adminId or participant set.
C7_UnknownJoinRejected ==
    JoinUnknown => OnlyRoomError /\ RegistriesUnchanged

\* an unassigned connection asked for a code with no room while another
\* room existed, and got room_error
C7_Witness ==
    /\ JoinUnknown
    /\ last.raw \in Codes
    /\ DOMAIN rooms # {}
    /\ Unassigned(sockets, last.id)
    /\ OnlyRoomError
    /\ sent[1].delivered

\* C8: a join_room from a registered connection V whose normalized code
\* names an existing room R adds V to R's participants, makes V a viewer of
\* R, and calls room_joined{R} for V and then viewer_joined{V} for R's admin;
\* the code matches in any case and with surrounding blanks.
C8_JoinAttaches ==
    \A R \in DOMAIN pre.rooms :
        JoinFor(R) =>
            /\ R \in DOMAIN rooms
            /\ Parts(rooms, R) = Parts(pre.rooms, R) \cup {last.id}
            /\ rooms[R].adminId = pre.rooms[R].adminId
            /\ sockets[last.id] = [roomCode |-> R, role |-> "viewer"]
            /\ Len(sent) = 2
            /\ sent[1].type = "room_joined"
            /\ sent[1].to = last.id
            /\ sent[1].roomCode = R
            /\ sent[2].type = "viewer_joined"
            /\ sent[2].to = pre.rooms[R].adminId
            /\ sent[2].peer = last.id

\* a lower-case, blank-padded code joined the room and both messages arrived
C8_Witness ==
    \E R \in DOMAIN pre.rooms :
        /\ JoinFor(R)
        /\ last.raw # R
        /\ last.id # rooms[R].adminId
        /\ Len(sent) = 2
        /\ sent[1].delivered
        /\ sent[2].delivered

(* -------------------------------- C9 ----------------------------------- *)
\* C9: once the admin of room R has been cleaned up, every later join_room
\* for R's code, with no create_room under that code in between, yields
\* room_error and attaches the requester to no room.
C9_NoJoinAfterAdminGone ==
    \A R \in adminGone :
        JoinFor(R) => OnlyRoomError /\ RegistriesUnchanged

(* -------------------------------- C10 ---------------------------------- *)
\* C10: when the admin of room R is cleaned up, every participant of R that
\* is registered with an open channel gets exactly one room_closed, and no
\* room_closed is written to a participant that had already disconnected.
C10_RoomClosedOncePerOpenParticipant ==
    (Cleanup /\ last.id \in DOMAIN pre.sockets) =>
        /\ \A R \in AdminOf(pre.rooms, last.id) : \A p \in Parts(pre.rooms, R) :
              (p \in DOMAIN pre.sockets /\ pre.readyState[p] = "OPEN")
                  => Cardinality(Delivered("room_closed", p)) = 1
        /\ \A k \in 1..Len(sent) :
              (sent[k].type = "room_closed" /\ sent[k].to \notin DOMAIN pre.sockets)
                  => ~sent[k].delivered

(* -------------------------------- C11 ---------------------------------- *)
\* C11: a create_room from any registered connection C, whatever its role
\* and room, adds a room under a code that was not in the registry, with
\* adminId C and no participants, makes C admin of that code, and makes
\* exactly one call: room_created with that code, to C.
C11_CreateRoomAddsNewRoom ==
    last.op = "create_room" =>
        /\ last.raw \notin DOMAIN pre.rooms
        /\ DOMAIN rooms = DOMAIN pre.rooms \cup {last.raw}
        /\ rooms[last.raw] = [adminId |-> last.id, participants |-> <<>>]
        /\ sockets[last.id] = [roomCode |-> last.raw, role |-> "admin"]
        /\ Len(sent) = 1
        /\ sent[1].type = "room_created"
        /\ sent[1].to = last.id
        /\ sent[1].roomCode = last.raw

(* -------------------------------- C12 ---------------------------------- *)
\* the frame just handled reached none of the five cases
Unhandled == last.op \in {"return", "break", "TypeError"}

\* C12: a message that does not decode to a record of a recognized type
\* makes no call, changes no role, room or registry entry, and leaves the
\* sender registered with the server still serving.
C12_UnhandledMessageDropped ==
    Unhandled =>
        /\ sent = <<>>
        /\ RegistriesUnchanged
        /\ last.id \in DOMAIN sockets
        /\ running

(* -------------------------------- C13 ---------------------------------- *)
\* C13: in every reachable state the adminId of every room is a registered
\* connection, so no room outlives the cleanup of the connection that
\* created it, a room abandoned by a later create_room or join_room
\* included.
C13_AdminRegistered ==
    \A R \in DOMAIN rooms : rooms[R].adminId \in DOMAIN sockets

(* -------------------------------- C14 ---------------------------------- *)
\* C14: a room code leaves the registry only in the cleanup of the
\* connection recorded as its adminId; no message, no cleanup of a viewer
\* or of any other connection removes it, and a room whose participant set
\* is or becomes empty stays.
C14_RemovedOnlyByAdminCleanup ==
    \A R \in DOMAIN pre.rooms :
        R \notin DOMAIN rooms =>
            /\ Cleanup
            /\ last.id = pre.rooms[R].adminId

\* the only participant of a room was cleaned up and the room is still
\* registered, with no participants
C14_Witness ==
    /\ CleanupOf("viewer")
    /\ \E R \in DOMAIN pre.rooms :
          /\ pre.rooms[R].adminId # last.id
          /\ Parts(pre.rooms, R) = {last.id}
          /\ R \in DOMAIN rooms
          /\ Parts(rooms, R) = {}

(* -------------------------------- C15 ---------------------------------- *)
\* C15: a registered connection's role goes from admin or viewer back to
\* unassigned only when it is a viewer and the admin of the room it is in
\* is cleaned up; no admin is ever reset and no message resets a role.
C15_OnlyViewersOfClosedRoomReset ==
    \A i \in DOMAIN pre.sockets \cap DOMAIN sockets :
        (pre.sockets[i].role # NoRole /\ sockets[i].role = NoRole) =>
            /\ Cleanup
            /\ pre.sockets[i].role = "viewer"
            /\ pre.sockets[i].roomCode \in AdminOf(pre.rooms, last.id)

(* -------------------------------- C16 ---------------------------------- *)
\* the cleanup just run was the second one for its connection
SecondCleanup == Cleanup /\ fired[last.id] = {"error", "close"}

\* C16: when both error and close fire for a connection, in either order,
\* the second cleanup changes neither registry and makes no call.
C16_SecondCleanupIsNoOp ==
    SecondCleanup => sent = <<>> /\ RegistriesUnchanged

\* close after error for an admin whose first cleanup had closed its room
C16_WitnessErrorThenClose ==
    /\ SecondCleanup
    /\ last.op = "close"
    /\ adminGone # {}
    /\ \E i \in DOMAIN sockets : Unassigned(sockets, i)

(* -------------------------------- C17 ---------------------------------- *)
\* C17: every room registered before a create_room is registered after it
\* with the same adminId and the same participants, for every code the
\* generator can draw.
C17_CreateRoomKeepsRooms ==
    last.op = "create_room" =>
        \A R \in DOMAIN pre.rooms :
            R \in DOMAIN rooms /\ rooms[R] = pre.rooms[R]

(* -------------------------------- C18 ---------------------------------- *)
\* C18: whenever receive_offer with adminId A is written to the channel of
\* V, V is a viewer, V's room is A's room and that room records A as its
\* adminId.
C18_OfferOnlyToCurrentViewer ==
    \A k \in 1..Len(sent) :
        (sent[k].type = "receive_offer" /\ sent[k].delivered) =>
            /\ sockets[sent[k].to].role = "viewer"
            /\ sockets[sent[k].to].roomCode = sockets[sent[k].peer].roomCode
            /\ sockets[sent[k].to].roomCode \in AdminOf(rooms, sent[k].peer)

(* -------------------------------- C19 ---------------------------------- *)
\* connection i got a room_closed call or had its entry changed
Touched(i) ==
    \/ sockets[i] # pre.sockets[i]
    \/ \E k \in 1..Len(sent) : sent[k].type = "room_closed" /\ sent[k].to = i

\* C19: the cleanup of the admin of room R calls room_closed for, and
\* clears, only connections whose room is R at that moment; a connection
\* that is viewer or admin of another room keeps its role and room.
C19_CleanupTouchesOnlyCurrentMembers ==
    (Cleanup /\ last.id \in DOMAIN pre.sockets) =>
        \A i \in DOMAIN sockets :
            Touched(i) => pre.sockets[i].roomCode = pre.sockets[last.id].roomCode

(* -------------------------------- C20 ---------------------------------- *)
\* a call of createAdminPeerConnection for v is under way on an open pc
OfferUnderWay(v) == \E t \in offers : t.viewerId = v /\ t.pc \notin closedPcs

\* C20: on the admin page every announced viewer is, at any moment, still
\* in pendingViewers, or being served by a call under way, or has had its
\* send_offer emitted: a viewer announced with no stream is queued, one
\* announced with the stream active is served at once, and none is left
\* without an offer.
C20_NoAnnouncedViewerLeftOut ==
    /\ \A v \in announced :
          v \in offered \/ InSeq(v, pendingViewers) \/ OfferUnderWay(v)
    /\ (clast.op = "viewer_joined" /\ isAdmin /\ ~localStream)
          => InSeq(clast.viewerId, pendingViewers)
    /\ (clast.op = "viewer_joined" /\ isAdmin /\ localStream)
          => OfferUnderWay(clast.viewerId)
====
